---- MODULE Spec2Model ----
(***************************************************************************)
(* The exact-scheme SVM facilitator (ExactSvmScheme): verify and settle of *)
(* a client-built payment transaction under a verification policy.         *)
(*                                                                         *)
(* Instruction indices are 0-based as in the source; At(s, i) reads the    *)
(* i-th entry of a list.  JavaScript's undefined is the value Undefined.   *)
(***************************************************************************)
EXTENDS Integers, Sequences, FiniteSets, TLC

VARIABLES
    signer,              \* this.signer.getAddresses(): the controlled addresses
    verificationConfig,  \* this.verificationConfig: the caller's overrides
    pc,                  \* where the running invocation is suspended
    op,                  \* the public operation running: "verify" or "settle"
    payload,             \* the PaymentPayload of the running invocation
    requirements,        \* the PaymentRequirements of the running invocation
    payer,               \* verify's local `payer`
    invoked,             \* indices at which a custom verifier callback ran
    verdict,             \* the VerifyResponse verify returned (Undefined before)
    result,              \* what the public operation returned (Undefined before)
    outcome,             \* "pending", "returned" or "threw"
    calls,               \* the signer's methods called, in order
    expectedDestATA,     \* what findAssociatedTokenPda settled with in verify
    suspended            \* the locals of the other invocation in flight

vars == <<signer, verificationConfig, pc, op, payload, requirements, payer,
          invoked, verdict, result, outcome, calls, expectedDestATA,
          suspended>>

-----------------------------------------------------------------------------
(* Bounds of the model *)

\* the longest instruction list a generated transaction carries
MaxIx == 4

-----------------------------------------------------------------------------
(* Values *)

Undefined == "<undefined>"

\* an object literal with no own property
EmptyObject == [f \in {} |-> Undefined]

At(s, i) == s[i + 1]

Includes(s, x) == \E k \in 1..Len(s) : s[k] = x

COMPUTE_BUDGET_PROGRAM_ADDRESS == "ComputeBudget111111111111111111111111111111"
TOKEN_PROGRAM_ADDRESS == "TokenkegQfeZyiNwAJbNbGKPFXCWuBvf9Ss623VQ5DA"
TOKEN_2022_PROGRAM_ADDRESS == "TokenzQdBNbLqP5VEhdkAS6EPFLC1PHnBqCXEpPxuEb"
MAX_COMPUTE_UNIT_PRICE_MICROLAMPORTS == 5000000

\* programs a wallet may append instructions of
LighthouseProgram == "L2TExMFKdjpN9kozasaurPirfHy9P8sbXoAN1qA3S95"
MemoProgram == "MemoSq4gqABAXKb96qnH8TysNcWxMyWCqXgDLGmfcHr"

\* addresses
Fee1 == "FacilitatorFeePayer1"
Fee2 == "FacilitatorFeePayer2"
Stranger == "UnmanagedFeePayer"
Client == "ClientWallet"
ClientSource == "ClientTokenAccount"
Merchant == "MerchantWallet"
Usdc == "UsdcMint"
OtherMint == "OtherMint"
RequiredAmount == 1000

\* findAssociatedTokenPda: the token account derived from (mint, owner, program)
AssociatedTokenPda(mint, owner, tokenProgram) ==
    "ata(" \o mint \o "," \o owner \o "," \o tokenProgram \o ")"

\* a default that lets a fourth instruction through the count check
DEFAULT_ALLOWING_FOUR ==
    [ allowAdditionalInstructions |-> FALSE,
      maxInstructionCount |-> 4,
      allowedProgramIds |-> <<>>,
      blockedProgramIds |-> <<>>,
      customVerifiers |-> <<>>,
      requireFeePayerNotInInstructions |-> TRUE ]

DEFAULT_VERIFICATION_CONFIG ==
    [ allowAdditionalInstructions |-> FALSE,
      maxInstructionCount |-> 3,
      allowedProgramIds |-> <<>>,
      blockedProgramIds |-> <<>>,
      customVerifiers |-> <<>>,
      requireFeePayerNotInInstructions |-> TRUE ]

\* { ...DEFAULT_VERIFICATION_CONFIG, ...this.verificationConfig }
MergedConfig(overrides) ==
    [ f \in DOMAIN DEFAULT_VERIFICATION_CONFIG |->
        IF f \in DOMAIN overrides THEN overrides[f]
        ELSE DEFAULT_VERIFICATION_CONFIG[f] ]

\* a ?? b
Nullish(a, b) == IF a = Undefined THEN b ELSE a

\* a || b on strings
OrElse(a, b) == IF a = "" \/ a = Undefined THEN b ELSE a

-----------------------------------------------------------------------------
(* Instructions and their parsers *)

Instruction(programAddress, accounts, data) ==
    [programAddress |-> programAddress, accounts |-> accounts, data |-> data]

\* data: the discriminator byte followed by the instruction's fields, one
\* entry per field; an instruction whose fields are cut short does not parse.
\* A parsed instruction is { programAddress, data: { discriminator, ... } },
\* the shape verify reads of a parsed transfer (parsedTransfer.data.amount)
parseSetComputeUnitLimitInstruction(ix) ==
    IF Len(ix.data) >= 2
    THEN [ ok |-> TRUE,
           parsed |-> [ programAddress |-> ix.programAddress,
                        data |-> [ discriminator |-> ix.data[1],
                                   units |-> ix.data[2] ] ] ]
    ELSE [ok |-> FALSE]

parseSetComputeUnitPriceInstruction(ix) ==
    IF Len(ix.data) >= 2
    THEN [ ok |-> TRUE,
           parsed |-> [ programAddress |-> ix.programAddress,
                        data |-> [ discriminator |-> ix.data[1],
                                   microLamports |-> ix.data[2] ] ] ]
    ELSE [ok |-> FALSE]

\* TransferChecked: accounts <<source, mint, destination, authority>>,
\* data <<discriminator, amount, decimals>>
parseTransferCheckedInstruction(ix) ==
    IF Len(ix.accounts) >= 4 /\ Len(ix.data) >= 3
    THEN [ ok |-> TRUE,
           source |-> ix.accounts[1],
           mint |-> ix.accounts[2],
           destination |-> ix.accounts[3],
           authority |-> ix.accounts[4],
           amount |-> ix.data[2] ]
    ELSE [ok |-> FALSE]

instructionIncludesAccount(instruction, accountAddress) ==
    Includes(instruction.accounts, accountAddress)

\* the message of the Error thrown, or "ok"
verifyComputeLimitInstruction(instruction) ==
    IF \/ instruction.programAddress # COMPUTE_BUDGET_PROGRAM_ADDRESS
       \/ Len(instruction.data) = 0
       \/ instruction.data[1] # 2
    THEN "invalid_exact_svm_payload_transaction_instructions_compute_limit_instruction"
    ELSE IF ~parseSetComputeUnitLimitInstruction(instruction).ok
    THEN "invalid_exact_svm_payload_transaction_instructions_compute_limit_instruction"
    ELSE "ok"

\* object.name: the property when the object has it, undefined otherwise
Property(object, name) ==
    IF name \in DOMAIN object
    THEN [defined |-> TRUE, value |-> object[name]]
    ELSE [defined |-> FALSE]

\* microLamports > BigInt(MAX_COMPUTE_UNIT_PRICE_MICROLAMPORTS): undefined
\* compared with a bigint is false
PriceTooHigh(microLamports) ==
    /\ microLamports.defined
    /\ microLamports.value > MAX_COMPUTE_UNIT_PRICE_MICROLAMPORTS

verifyComputePriceInstruction(instruction) ==
    IF \/ instruction.programAddress # COMPUTE_BUDGET_PROGRAM_ADDRESS
       \/ Len(instruction.data) = 0
       \/ instruction.data[1] # 3
    THEN "invalid_exact_svm_payload_transaction_instructions_compute_price_instruction"
    ELSE LET parsedInstruction == parseSetComputeUnitPriceInstruction(instruction)
         IN IF ~parsedInstruction.ok
            THEN "invalid_exact_svm_payload_transaction_instructions_compute_price_instruction"
            ELSE IF PriceTooHigh(Property(parsedInstruction.parsed, "microLamports"))
            THEN "invalid_exact_svm_payload_transaction_instructions_compute_price_instruction_too_high"
            ELSE "ok"

IsTokenProgram(programAddress) ==
    \/ programAddress = TOKEN_PROGRAM_ADDRESS
    \/ programAddress = TOKEN_2022_PROGRAM_ADDRESS

-----------------------------------------------------------------------------
(* Custom verifiers *)

\* a rule's callback, by what it does when called: the value returned says
\* whether it threw, whether what it threw is an Error, and the message
RunVerifier(behaviour, instruction, context) ==
    CASE behaviour = "accepts" -> [threw |-> FALSE]
      [] behaviour = "throwsError" ->
            [threw |-> TRUE, isError |-> TRUE,
             message |-> "lighthouse_assertion_not_permitted"]
      [] behaviour = "throwsValue" ->
            [threw |-> TRUE, isError |-> FALSE, message |-> "rejected"]

\* the last matching rule taken instead of the first
FindLastVerifier(customVerifiers, programId) ==
    LET matching == { k \in 1..Len(customVerifiers) :
                        Includes(customVerifiers[k].programIds, programId) }
    IN IF matching = {} THEN 0
       ELSE CHOOSE k \in matching : \A j \in matching : k >= j

\* config.customVerifiers.find(v => v.programIds.includes(programId)):
\* the position of the first matching rule, 0 when none matches
FindVerifier(customVerifiers, programId) ==
    LET matching == { k \in 1..Len(customVerifiers) :
                        Includes(customVerifiers[k].programIds, programId) }
    IN IF matching = {} THEN 0
       ELSE CHOOSE k \in matching : \A j \in matching : k <= j

\* the block-list consulted only for programs no custom rule matches
BlockedUnlessVerified(config, programId) ==
    /\ Includes(config.blockedProgramIds, programId)
    /\ FindVerifier(config.customVerifiers, programId) = 0

IsBlocked(config, programId) ==
    Includes(config.blockedProgramIds, programId)

PositionRejected(customVerifier, i) ==
    /\ "allowedPositions" \in DOMAIN customVerifier
    /\ ~Includes(customVerifier.allowedPositions, i)

\* an empty allow-list taken to allow nothing
NotListed(config, programId) ==
    ~Includes(config.allowedProgramIds, programId)

NotOnAllowList(config, programId) ==
    /\ Len(config.allowedProgramIds) > 0
    /\ ~Includes(config.allowedProgramIds, programId)

-----------------------------------------------------------------------------
(* validateInstructions *)

InstructionValidationResult(isValid, reason, ran) ==
    [ isValid |-> isValid, reason |-> reason, transferInstructionIndex |-> 2,
      invoked |-> ran ]

\* the minimum taken one too low
FewerThanTwoInstructions(instructions) == Len(instructions) < 2

TooFewInstructions(instructions) == Len(instructions) < 3

\* the maximum applied to the additional instructions alone
ExceedsMaxAdditional(instructions, config) ==
    Len(instructions) - 3 > config.maxInstructionCount

ExceedsMaxInstructions(instructions, config) ==
    Len(instructions) > config.maxInstructionCount

\* the scan stopping after the three required instructions
FeePayerInRequiredInstructions(instructions, feePayer) ==
    \E i \in 0..2 : instructionIncludesAccount(At(instructions, i), feePayer)

FeePayerInInstructions(instructions, feePayer) ==
    \E i \in 0..(Len(instructions) - 1) :
        instructionIncludesAccount(At(instructions, i), feePayer)

\* additional instructions let through whenever an allow-list is given
AdditionalAllowedWhenListed(config) ==
    /\ ~config.allowAdditionalInstructions
    /\ Len(config.allowedProgramIds) = 0

AdditionalInstructionsNotAllowed(config) ==
    ~config.allowAdditionalInstructions

\* the loop over the instructions at index 3 and above, from index i on;
\* ran: the indices whose callback has run so far
RECURSIVE validateAdditionalInstructions(_, _, _, _, _, _)
validateAdditionalInstructions(config, instructions, signerAddresses, feePayer, i, ran) ==
    IF i >= Len(instructions)
    THEN InstructionValidationResult(TRUE, Undefined, ran)
    ELSE
    LET ix == At(instructions, i)
        programId == ix.programAddress
        found == FindVerifier(config.customVerifiers, programId)
        customVerifier == config.customVerifiers[found]
        context == [ signerAddresses |-> signerAddresses, feePayer |-> feePayer,
                     instructionIndex |-> i ]
        thrown == RunVerifier(customVerifier.verify, ix, context)
    IN
    IF IsBlocked(config, programId)
    THEN InstructionValidationResult(FALSE,
            "invalid_exact_svm_payload_blocked_program_" \o programId, ran)
    ELSE IF found # 0
    THEN IF PositionRejected(customVerifier, i)
         THEN InstructionValidationResult(FALSE,
                "invalid_exact_svm_payload_instruction_position_" \o programId
                    \o "_at_" \o ToString(i), ran)
         ELSE IF "verify" \in DOMAIN customVerifier
         THEN IF thrown.threw
              THEN InstructionValidationResult(FALSE,
                     IF thrown.isError THEN thrown.message
                     ELSE "custom_verifier_failed_" \o programId,
                     ran \cup {i})
              ELSE validateAdditionalInstructions(config, instructions,
                     signerAddresses, feePayer, i + 1, ran \cup {i})
         ELSE validateAdditionalInstructions(config, instructions,
                signerAddresses, feePayer, i + 1, ran)
    ELSE IF NotOnAllowList(config, programId)
    THEN InstructionValidationResult(FALSE,
            "invalid_exact_svm_payload_program_not_allowed_" \o programId, ran)
    ELSE validateAdditionalInstructions(config, instructions, signerAddresses,
            feePayer, i + 1, ran)

validateInstructions(overrides, instructions, signerAddresses, feePayer) ==
    LET config == MergedConfig(overrides)
        limit == verifyComputeLimitInstruction(At(instructions, 0))
        price == verifyComputePriceInstruction(At(instructions, 1))
    IN
    IF TooFewInstructions(instructions)
    THEN InstructionValidationResult(FALSE,
            "invalid_exact_svm_payload_transaction_instructions_length_too_few", {})
    ELSE IF ExceedsMaxInstructions(instructions, config)
    THEN InstructionValidationResult(FALSE,
            "invalid_exact_svm_payload_transaction_instructions_length_exceeds_max_"
                \o ToString(config.maxInstructionCount), {})
    ELSE IF /\ config.requireFeePayerNotInInstructions
            /\ FeePayerInInstructions(instructions, feePayer)
    THEN InstructionValidationResult(FALSE,
            "invalid_exact_svm_payload_fee_payer_in_instruction_accounts", {})
    ELSE IF limit # "ok"
    THEN InstructionValidationResult(FALSE, limit, {})
    ELSE IF price # "ok"
    THEN InstructionValidationResult(FALSE, price, {})
    ELSE IF ~IsTokenProgram(At(instructions, 2).programAddress)
    THEN InstructionValidationResult(FALSE,
            "invalid_exact_svm_payload_no_transfer_instruction_at_index_2", {})
    ELSE IF Len(instructions) > 3
    THEN IF AdditionalInstructionsNotAllowed(config)
         THEN InstructionValidationResult(FALSE,
                "invalid_exact_svm_payload_additional_instructions_not_allowed", {})
         ELSE validateAdditionalInstructions(config, instructions,
                signerAddresses, feePayer, 3, {})
    ELSE InstructionValidationResult(TRUE, Undefined, {})

-----------------------------------------------------------------------------
(* verify, up to its first suspension *)

\* a rejection that leaves the payer out
VerifyResponseWithoutPayerOnFailure(isValid, invalidReason, p) ==
    [ isValid |-> isValid, invalidReason |-> invalidReason,
      payer |-> IF isValid THEN p ELSE "" ]

VerifyResponse(isValid, invalidReason, p) ==
    [isValid |-> isValid, invalidReason |-> invalidReason, payer |-> p]

\* the value of requirements.extra?.feePayer carries its JavaScript type
FeePayerMissing(req) ==
    LET feePayer == req.extra.feePayer
    IN \/ feePayer.type = "undefined"
       \/ feePayer.value = ""
       \/ feePayer.type # "string"

\* Step 1 of verify: the reason of the first gate that fails, or "ok"
RequirementGates(signerAddresses, p, req) ==
    IF p.accepted.scheme # "exact" \/ req.scheme # "exact"
    THEN "unsupported_scheme"
    ELSE IF p.accepted.network # req.network
    THEN "network_mismatch"
    ELSE IF FeePayerMissing(req)
    THEN "invalid_exact_svm_payload_missing_fee_payer"
    ELSE IF ~Includes(signerAddresses, req.extra.feePayer.value)
    THEN "fee_payer_not_managed_by_facilitator"
    ELSE "ok"

\* the base64 text either decodes to a transaction or the decoder throws
decodeTransactionFromPayload(exactSvmPayload) ==
    IF exactSvmPayload.transaction.encoding = "base64"
    THEN [ok |-> TRUE,
          transaction |-> [messageBytes |-> exactSvmPayload.transaction.message]]
    ELSE [ok |-> FALSE]

\* getCompiledTransactionMessageDecoder().decode and
\* decompileTransactionMessage: a message that reads its accounts from an
\* address lookup table cannot be decompiled without the table, and throws
decompileTransactionMessage(messageBytes) ==
    IF messageBytes.addressTableLookups
    THEN [ok |-> FALSE]
    ELSE [ok |-> TRUE, instructions |-> messageBytes.instructions]

\* the owner of the source account of the first token-program instruction
\* that carries the accounts of a transfer; "" when there is none
getTokenPayerFromTransaction(transaction) ==
    LET instructions == transaction.messageBytes.instructions
        transfers == { k \in 1..Len(instructions) :
                         /\ IsTokenProgram(instructions[k].programAddress)
                         /\ Len(instructions[k].accounts) >= 4 }
    IN IF transfers = {} THEN ""
       ELSE instructions[CHOOSE k \in transfers : \A j \in transfers : k <= j].accounts[4]

\* the authority compared with the first controlled address alone
AuthorityIsFirstSigner(signerAddresses, authorityAddress) ==
    authorityAddress = signerAddresses[1]

AuthorityIsSigner(signerAddresses, authorityAddress) ==
    Includes(signerAddresses, authorityAddress)

MintMismatch(mintAddress, req) ==
    mintAddress # req.asset

\* Step 4 of verify up to the derivation of the destination: the reason of
\* the first check that fails, or "ok"
TransferGates(signerAddresses, transferIx, req) ==
    LET programAddress == transferIx.programAddress
        parsedTransfer == parseTransferCheckedInstruction(transferIx)
    IN
    IF ~IsTokenProgram(programAddress)
    THEN "invalid_exact_svm_payload_no_transfer_instruction"
    ELSE IF ~parsedTransfer.ok
    THEN "invalid_exact_svm_payload_no_transfer_instruction"
    ELSE IF AuthorityIsSigner(signerAddresses, parsedTransfer.authority)
    THEN "invalid_exact_svm_payload_transaction_fee_payer_transferring_funds"
    ELSE IF MintMismatch(parsedTransfer.mint, req)
    THEN "invalid_exact_svm_payload_mint_mismatch"
    ELSE "ok"

\* How far verify runs before it first suspends: it has returned a verdict,
\* thrown, or awaits findAssociatedTokenPda
VerifyToDerive(overrides, signerAddresses, p, req) ==
    LET gate == RequirementGates(signerAddresses, p, req)
        decoded == decodeTransactionFromPayload(p.payload)
        decompiled == decompileTransactionMessage(decoded.transaction.messageBytes)
        instructions == decompiled.instructions
        resolved == getTokenPayerFromTransaction(decoded.transaction)
        validationResult ==
            validateInstructions(overrides, instructions, signerAddresses,
                                 req.extra.feePayer.value)
        transferIx == At(instructions, validationResult.transferInstructionIndex)
        transfer == TransferGates(signerAddresses, transferIx, req)
        Returns(reason, who, ran) ==
            [ kind |-> "return", verdict |-> VerifyResponse(FALSE, reason, who),
              payer |-> who, invoked |-> ran ]
    IN
    IF gate # "ok" THEN Returns(gate, "", {})
    ELSE IF ~decoded.ok
    THEN Returns("invalid_exact_svm_payload_transaction_could_not_be_decoded", "", {})
    ELSE IF ~decompiled.ok
    THEN [ kind |-> "throw", verdict |-> Undefined, payer |-> "", invoked |-> {} ]
    ELSE IF resolved = ""
    THEN Returns("invalid_exact_svm_payload_no_transfer_instruction", "", {})
    ELSE IF ~validationResult.isValid
    THEN Returns(Nullish(validationResult.reason, "invalid_instructions"),
                 resolved, validationResult.invoked)
    ELSE IF transfer # "ok"
    THEN Returns(transfer, resolved, validationResult.invoked)
    ELSE [ kind |-> "await", verdict |-> Undefined, payer |-> resolved,
           invoked |-> validationResult.invoked ]

\* the instruction verify reads the transfer from
TransferInstruction(p) == At(p.payload.transaction.message.instructions, 2)

\* BigInt(requirements.amount): a text that is no integer throws
ToBigInt(amount) ==
    IF amount.numeric THEN [ok |-> TRUE, value |-> amount.value]
    ELSE [ok |-> FALSE]

\* the comparison turned around
AmountExceeds(amount, required) == amount > required

\* the comparison rejecting the exact amount too
AmountNotAbove(amount, required) == amount <= required

AmountInsufficient(amount, required) == amount < required

\* the rest of Step 4, once findAssociatedTokenPda has settled: derived is
\* the address it resolved to, or Undefined when it rejected
DestinationAndAmount(derived, transferIx, req) ==
    LET parsedTransfer == parseTransferCheckedInstruction(transferIx)
        required == ToBigInt(req.amount)
    IN
    IF derived = Undefined
    THEN [threw |-> FALSE, reason |-> "invalid_exact_svm_payload_recipient_mismatch"]
    ELSE IF parsedTransfer.destination # derived
    THEN [threw |-> FALSE, reason |-> "invalid_exact_svm_payload_recipient_mismatch"]
    ELSE IF ~required.ok
    THEN [threw |-> TRUE, reason |-> Undefined]
    ELSE IF AmountInsufficient(parsedTransfer.amount, required.value)
    THEN [threw |-> FALSE, reason |-> "invalid_exact_svm_payload_amount_insufficient"]
    ELSE [threw |-> FALSE, reason |-> "ok"]

-----------------------------------------------------------------------------
(* settle's results *)

SettleResponse(success, transaction, network, p, errorReason) ==
    [ success |-> success, transaction |-> transaction, network |-> network,
      payer |-> p, errorReason |-> errorReason ]

\* the rejection reported without verify's reason
SettleVerificationFailedGeneric(valid, p) ==
    SettleResponse(FALSE, "", p.accepted.network, OrElse(valid.payer, ""),
                   "verification_failed")

\* settle's return when verify rejected
SettleVerificationFailed(valid, p) ==
    SettleResponse(FALSE, "", p.accepted.network,
                   OrElse(valid.payer, ""),
                   Nullish(valid.invalidReason, "verification_failed"))

\* the catch block reporting the cause it caught
SettleTransactionFailedWithCause(valid, p) ==
    SettleResponse(FALSE, "", p.accepted.network, OrElse(valid.payer, ""),
                   "transaction_failed: Error")

\* settle's return from its catch block
SettleTransactionFailed(valid, p) ==
    SettleResponse(FALSE, "", p.accepted.network, OrElse(valid.payer, ""),
                   "transaction_failed")

\* the success reported without the signature
SettleSucceededWithoutSignature(valid, p, signature) ==
    SettleResponse(TRUE, "", p.accepted.network, valid.payer, Undefined)

SettleSucceeded(valid, p, signature) ==
    SettleResponse(TRUE, signature, p.accepted.network, valid.payer, Undefined)

-----------------------------------------------------------------------------
(* The inputs the invocations are drawn from *)

Network == "solana:5eykt4UsFv8P8NJdTREpY1vzqKqZKvdp"
Devnet == "solana:EtWTRABZaYq6iMfeYKouRu166VU2xqa1"

SetComputeUnitLimit(accounts) ==
    Instruction(COMPUTE_BUDGET_PROGRAM_ADDRESS, accounts, <<2, 200000>>)

SetComputeUnitPrice(microLamports) ==
    Instruction(COMPUTE_BUDGET_PROGRAM_ADDRESS, <<>>, <<3, microLamports>>)

TransferChecked(tokenProgram, mint, destination, authority, amount) ==
    Instruction(tokenProgram, <<ClientSource, mint, destination, authority>>,
                <<12, amount, 6>>)

\* the transfer of Scenario A
GoodTransfer ==
    TransferChecked(TOKEN_PROGRAM_ADDRESS, Usdc,
                    AssociatedTokenPda(Usdc, Merchant, TOKEN_PROGRAM_ADDRESS),
                    Client, RequiredAmount)

Transfers ==
    { GoodTransfer,
      TransferChecked(TOKEN_PROGRAM_ADDRESS, Usdc,
                      AssociatedTokenPda(Usdc, Merchant, TOKEN_PROGRAM_ADDRESS),
                      Fee2, RequiredAmount),
      TransferChecked(TOKEN_PROGRAM_ADDRESS, OtherMint,
                      AssociatedTokenPda(Usdc, Merchant, TOKEN_PROGRAM_ADDRESS),
                      Client, RequiredAmount),
      TransferChecked(TOKEN_PROGRAM_ADDRESS, Usdc,
                      AssociatedTokenPda(Usdc, Client, TOKEN_PROGRAM_ADDRESS),
                      Client, RequiredAmount),
      TransferChecked(TOKEN_PROGRAM_ADDRESS, Usdc,
                      AssociatedTokenPda(Usdc, Merchant, TOKEN_PROGRAM_ADDRESS),
                      Client, RequiredAmount - 1),
      TransferChecked(TOKEN_PROGRAM_ADDRESS, Usdc,
                      AssociatedTokenPda(Usdc, Merchant, TOKEN_PROGRAM_ADDRESS),
                      Client, RequiredAmount + 1),
      TransferChecked(TOKEN_2022_PROGRAM_ADDRESS, Usdc,
                      AssociatedTokenPda(Usdc, Merchant, TOKEN_2022_PROGRAM_ADDRESS),
                      Client, RequiredAmount),
      Instruction(TOKEN_PROGRAM_ADDRESS, <<ClientSource, Usdc, Client>>,
                  <<3, RequiredAmount>>) }

\* what a wallet appends after the three required instructions
Additional ==
    { Instruction(LighthouseProgram, <<>>, <<1>>),
      Instruction(MemoProgram, <<Client, Fee1>>, <<>>),
      GoodTransfer }

\* the instructions a generated transaction may carry at index i
PoolAt(i) ==
    CASE i = 0 -> { SetComputeUnitLimit(<<>>), SetComputeUnitLimit(<<Fee1>>),
                    GoodTransfer }
      [] i = 1 -> { SetComputeUnitPrice(MAX_COMPUTE_UNIT_PRICE_MICROLAMPORTS),
                    SetComputeUnitPrice(MAX_COMPUTE_UNIT_PRICE_MICROLAMPORTS + 1),
                    Instruction(COMPUTE_BUDGET_PROGRAM_ADDRESS, <<>>, <<3>>) }
      [] i = 2 -> Transfers \cup {Instruction(LighthouseProgram, <<>>, <<1>>)}
      [] OTHER -> Additional

RECURSIVE ListsOfLength(_)
ListsOfLength(n) ==
    IF n = 0 THEN {<<>>}
    ELSE { Append(t, x) : t \in ListsOfLength(n - 1), x \in PoolAt(n - 1) }

InstructionLists == UNION { ListsOfLength(n) : n \in 0..MaxIx }

ScenarioA ==
    << SetComputeUnitLimit(<<>>),
       SetComputeUnitPrice(MAX_COMPUTE_UNIT_PRICE_MICROLAMPORTS),
       GoodTransfer >>

Encoded(instructions) ==
    [ encoding |-> "base64",
      message |-> [addressTableLookups |-> FALSE, instructions |-> instructions] ]

\* text that is no base64 encoding of a transaction
Garbage == [encoding |-> "none"]

\* a version-0 transaction whose message reads an address lookup table
WithLookupTable ==
    [ encoding |-> "base64",
      message |-> [addressTableLookups |-> TRUE, instructions |-> ScenarioA] ]

PaymentPayload(scheme, network, transaction) ==
    [ accepted |-> [scheme |-> scheme, network |-> network],
      payload |-> [transaction |-> transaction] ]

PaymentRequirements(scheme, feePayer, amount) ==
    [ scheme |-> scheme, network |-> Network, asset |-> Usdc, payTo |-> Merchant,
      amount |-> amount, extra |-> [feePayer |-> feePayer] ]

StringValue(text) == [type |-> "string", value |-> text]

FeePayerValues ==
    { [type |-> "undefined", value |-> Undefined],
      [type |-> "number", value |-> "7"],
      StringValue(""), StringValue(Fee1), StringValue(Fee2), StringValue(Stranger) }

Required == [numeric |-> TRUE, value |-> RequiredAmount]
NotANumber == [numeric |-> FALSE, value |-> 0]

\* invocations that differ in what the requirement gates read
GateInputs ==
    { <<PaymentPayload(s1, n, Encoded(ScenarioA)),
        PaymentRequirements(s2, StringValue(Fee1), Required)>> :
            s1 \in {"exact", "upto"}, s2 \in {"exact", "upto"},
            n \in {Network, Devnet} }
    \cup
    { <<PaymentPayload("exact", Network, tx),
        PaymentRequirements("exact", f, a)>> :
            tx \in {Encoded(ScenarioA), Garbage, WithLookupTable},
            f \in FeePayerValues, a \in {Required, NotANumber} }

\* invocations that pass the requirement gates and differ in the transaction
TransactionInputs ==
    { <<PaymentPayload("exact", Network, Encoded(t)),
        PaymentRequirements("exact", StringValue(Fee1), Required)>> :
            t \in InstructionLists }

Inputs == GateInputs \cup TransactionInputs

-----------------------------------------------------------------------------
(* The verification configs a scheme is constructed with: every choice of   *)
(* overrides, each field either left out or set                              *)

AccepterRule ==
    [programIds |-> <<LighthouseProgram, MemoProgram>>, verify |-> "accepts"]

PositionRule ==
    [programIds |-> <<LighthouseProgram>>, allowedPositions |-> <<4>>]

ThrowerRule ==
    [ programIds |-> <<LighthouseProgram, MemoProgram>>,
      allowedPositions |-> <<3, 4>>, verify |-> "throwsError" ]

OpaqueThrowerRule == [programIds |-> <<MemoProgram>>, verify |-> "throwsValue"]

\* a rule with neither allowedPositions nor a callback
BareRule == [programIds |-> <<LighthouseProgram>>]

Overrides(field, values) ==
    {EmptyObject} \cup { [f \in {field} |-> v] : v \in values }

VerificationConfigs ==
    { a @@ m @@ w @@ b @@ c @@ r :
        a \in Overrides("allowAdditionalInstructions", {TRUE}),
        m \in Overrides("maxInstructionCount", {2, MaxIx}),
        w \in Overrides("allowedProgramIds", {<<LighthouseProgram>>}),
        b \in Overrides("blockedProgramIds",
                        {<<LighthouseProgram, TOKEN_PROGRAM_ADDRESS>>}),
        c \in Overrides("customVerifiers",
                        { <<AccepterRule>>, <<PositionRule, ThrowerRule>>,
                          <<OpaqueThrowerRule, BareRule>> }),
        r \in Overrides("requireFeePayerNotInInstructions", {FALSE}) }

-----------------------------------------------------------------------------
(* The signer *)

\* what a call of a signer method does: it resolves, or rejects with an Error
SignerOutcomes == {"resolves", "rejects"}

SignerErrorMessage == "Simulation failed: BlockhashNotFound"

Call(fn, arg, ret) == [fn |-> fn, arg |-> arg, ret |-> ret]

Threw == "<threw>"

\* what the k-th call of the signer returns when it resolves
Returned(fn, k) == fn \o "#" \o ToString(k)

Called(fn) == \E k \in 1..Len(calls) : calls[k].fn = fn

-----------------------------------------------------------------------------
(* The scheme as a state machine *)

\* this.signer.getAddresses() of the signers a scheme is constructed with
SignerAddressLists == { <<>>, <<Fee1>>, <<Fee1, Fee2>> }

\* new ExactSvmScheme(signer, verificationConfig): the signer of two
\* addresses with every policy, the other signers with the default policy
Constructions ==
    { <<<<Fee1, Fee2>>, c>> : c \in VerificationConfigs }
    \cup { <<a, EmptyObject>> : a \in SignerAddressLists }

\* the locals of an invocation that has not started
IdleFrame ==
    [ pc |-> "idle", op |-> "none", payload |-> Undefined,
      requirements |-> Undefined, payer |-> "", invoked |-> {},
      verdict |-> Undefined, result |-> Undefined, outcome |-> "pending",
      calls |-> <<>>, expectedDestATA |-> Undefined ]

Init ==
    /\ \E made \in Constructions :
          /\ signer = made[1]
          /\ verificationConfig = made[2]
    /\ pc = "idle"
    /\ op = "none"
    /\ payload = Undefined
    /\ requirements = Undefined
    /\ payer = ""
    /\ invoked = {}
    /\ verdict = Undefined
    /\ result = Undefined
    /\ outcome = "pending"
    /\ calls = <<>>
    /\ expectedDestATA = Undefined
    /\ suspended = IdleFrame

\* verify returns `valid` inside operation o on payload p: verify's caller
\* has the verdict, and settle runs on to its own return or to its signing
VerifyReturns(o, p, valid) ==
    /\ verdict' = valid
    /\ IF o = "verify"
       THEN /\ result' = valid
            /\ outcome' = "returned"
            /\ pc' = "done"
       ELSE IF ~valid.isValid
       THEN /\ result' = SettleVerificationFailed(valid, p)
            /\ outcome' = "returned"
            /\ pc' = "done"
       ELSE /\ result' = Undefined
            /\ outcome' = "pending"
            /\ pc' = "settleSign"

\* an exception leaves verify; settle awaits verify outside its try block
VerifyThrows ==
    /\ verdict' = Undefined
    /\ result' = Undefined
    /\ outcome' = "threw"
    /\ pc' = "done"

\* the merge assigned to the field it reads
MergeWrittenBack(overrides) == MergedConfig(overrides)

\* this.verificationConfig once validateInstructions has merged it with the
\* defaults: the merge is a new object held in a local, the field is readonly
FieldAfterMerge(overrides) == overrides

\* an invocation starts and runs to its first suspension
Begin(o, p, req) ==
    LET ran == VerifyToDerive(verificationConfig, signer, p, req)
    IN /\ op' = o
       /\ payload' = p
       /\ requirements' = req
       /\ payer' = ran.payer
       /\ invoked' = ran.invoked
       /\ IF ran.kind = "return" THEN VerifyReturns(o, p, ran.verdict)
          ELSE IF ran.kind = "throw" THEN VerifyThrows
          ELSE /\ pc' = "derive"
               /\ UNCHANGED <<verdict, result, outcome>>
       /\ verificationConfig' = FieldAfterMerge(verificationConfig)
       /\ UNCHANGED <<signer, suspended, expectedDestATA, calls>>

Verify ==
    /\ pc = "idle"
    /\ \E input \in Inputs : Begin("verify", input[1], input[2])

Settle ==
    /\ pc = "idle"
    /\ \E input \in Inputs : Begin("settle", input[1], input[2])

\* the derivation made with the legacy token program whatever the transfer's
AlwaysLegacyTokenProgram(programAddress) == TOKEN_PROGRAM_ADDRESS

\* the tokenProgram findAssociatedTokenPda is called with
DerivationTokenProgram(programAddress) ==
    IF programAddress = TOKEN_PROGRAM_ADDRESS
    THEN TOKEN_PROGRAM_ADDRESS
    ELSE TOKEN_2022_PROGRAM_ADDRESS

\* findAssociatedTokenPda settles; verify compares the destination and the
\* amount
DeriveDestination ==
    /\ pc = "derive"
    /\ \E derives \in BOOLEAN :
         LET transferIx == TransferInstruction(payload)
             tokenProgram == DerivationTokenProgram(transferIx.programAddress)
             derived == IF derives
                        THEN AssociatedTokenPda(requirements.asset,
                                                requirements.payTo, tokenProgram)
                        ELSE Undefined
             checked == DestinationAndAmount(derived, transferIx, requirements)
         IN /\ expectedDestATA' = IF derives THEN derived ELSE Threw
            /\ IF checked.threw THEN VerifyThrows
               ELSE IF checked.reason # "ok"
               THEN VerifyReturns(op, payload,
                                  VerifyResponse(FALSE, checked.reason, payer))
               ELSE /\ pc' = "sign"
                    /\ UNCHANGED <<verdict, result, outcome>>
    /\ UNCHANGED <<signer, verificationConfig, suspended, op, payload,
                   requirements, payer, invoked, calls>>

SimulationFailed ==
    VerifyResponse(FALSE, "transaction_simulation_failed: " \o SignerErrorMessage,
                   payer)

\* Step 5 of verify: this.signer.signTransaction
SignForSimulation ==
    /\ pc = "sign"
    /\ \E how \in SignerOutcomes :
         LET k == Len(calls) + 1
             ret == IF how = "resolves" THEN Returned("signTransaction", k)
                    ELSE Threw
         IN /\ calls' = Append(calls, Call("signTransaction",
                                   requirements.extra.feePayer.value, ret))
            /\ IF how = "resolves"
               THEN /\ pc' = "simulate"
                    /\ UNCHANGED <<verdict, result, outcome>>
               ELSE VerifyReturns(op, payload, SimulationFailed)
    /\ UNCHANGED <<signer, verificationConfig, suspended, expectedDestATA,
                   op, payload, requirements, payer, invoked>>

\* Step 5 of verify: this.signer.simulateTransaction
Simulate ==
    /\ pc = "simulate"
    /\ \E how \in SignerOutcomes :
         LET ret == IF how = "resolves" THEN Undefined ELSE Threw
         IN /\ calls' = Append(calls, Call("simulateTransaction",
                                   calls[Len(calls)].ret, ret))
            /\ IF how = "resolves"
               THEN VerifyReturns(op, payload, VerifyResponse(TRUE, Undefined, payer))
               ELSE VerifyReturns(op, payload, SimulationFailed)
    /\ UNCHANGED <<signer, verificationConfig, suspended, expectedDestATA,
                   op, payload, requirements, payer, invoked>>

\* the exception leaving settle uncaught
SettleRethrows ==
    /\ result' = Undefined
    /\ outcome' = "threw"
    /\ pc' = "done"

\* settle's catch block
SettleCatches ==
    /\ result' = SettleTransactionFailed(verdict, payload)
    /\ outcome' = "returned"
    /\ pc' = "done"

\* settle: this.signer.signTransaction
SettleSign ==
    /\ pc = "settleSign"
    /\ \E how \in SignerOutcomes :
         LET k == Len(calls) + 1
             ret == IF how = "resolves" THEN Returned("signTransaction", k)
                    ELSE Threw
         IN /\ calls' = Append(calls, Call("signTransaction",
                                   requirements.extra.feePayer.value, ret))
            /\ IF how = "resolves"
               THEN /\ pc' = "send"
                    /\ UNCHANGED <<result, outcome>>
               ELSE SettleCatches
    /\ UNCHANGED <<signer, verificationConfig, suspended, expectedDestATA,
                   op, payload, requirements, payer, invoked, verdict>>

\* settle: this.signer.sendTransaction
Send ==
    /\ pc = "send"
    /\ \E how \in SignerOutcomes :
         LET k == Len(calls) + 1
             ret == IF how = "resolves" THEN Returned("signature", k)
                    ELSE Threw
         IN /\ calls' = Append(calls, Call("sendTransaction",
                                   calls[Len(calls)].ret, ret))
            /\ IF how = "resolves"
               THEN /\ pc' = "confirm"
                    /\ UNCHANGED <<result, outcome>>
               ELSE SettleCatches
    /\ UNCHANGED <<signer, verificationConfig, suspended, expectedDestATA,
                   op, payload, requirements, payer, invoked, verdict>>

\* settle: this.signer.confirmTransaction
Confirm ==
    /\ pc = "confirm"
    /\ \E how \in SignerOutcomes :
         LET signature == calls[Len(calls)].ret
             ret == IF how = "resolves" THEN Undefined ELSE Threw
         IN /\ calls' = Append(calls, Call("confirmTransaction", signature, ret))
            /\ IF how = "resolves"
               THEN /\ result' = SettleSucceeded(verdict, payload, signature)
                    /\ outcome' = "returned"
                    /\ pc' = "done"
               ELSE SettleCatches
    /\ UNCHANGED <<signer, verificationConfig, suspended, expectedDestATA,
                   op, payload, requirements, payer, invoked, verdict>>

\* Math.floor(Math.random() * addresses.length), Math.random() in [0, 1)
RandomIndexes(addresses) ==
    IF Len(addresses) = 0 THEN {0} ELSE 0..(Len(addresses) - 1)

\* addresses[randomIndex]: undefined past the end of the array
ElementAt(addresses, randomIndex) ==
    IF randomIndex < Len(addresses)
    THEN StringValue(At(addresses, randomIndex))
    ELSE [type |-> "undefined", value |-> Undefined]

\* getSigners(_): a copy of the signer's addresses
getSigners(addresses) == addresses

\* getExtra(_): one call, from entry to return
GetExtra ==
    /\ pc = "idle"
    /\ \E randomIndex \in RandomIndexes(signer) :
          result' = [feePayer |-> ElementAt(signer, randomIndex)]
    /\ op' = "getExtra"
    /\ outcome' = "returned"
    /\ pc' = "done"
    /\ UNCHANGED <<signer, verificationConfig, suspended, expectedDestATA,
                   payload, requirements, payer, invoked, verdict, calls>>

\* getSigners(_): one call, from entry to return
GetSigners ==
    /\ pc = "idle"
    /\ result' = getSigners(signer)
    /\ op' = "getSigners"
    /\ outcome' = "returned"
    /\ pc' = "done"
    /\ UNCHANGED <<signer, verificationConfig, suspended, expectedDestATA,
                   payload, requirements, payer, invoked, verdict, calls>>

\* the invocation is over; the scheme holds nothing of it
Finish ==
    /\ pc = "done"
    /\ pc' = "idle"
    /\ op' = "none"
    /\ payload' = Undefined
    /\ requirements' = Undefined
    /\ payer' = ""
    /\ invoked' = {}
    /\ verdict' = Undefined
    /\ result' = Undefined
    /\ outcome' = "pending"
    /\ calls' = <<>>
    /\ expectedDestATA' = Undefined
    /\ UNCHANGED <<signer, verificationConfig, suspended>>

Next ==
    \/ Verify
    \/ Settle
    \/ DeriveDestination
    \/ SignForSimulation
    \/ Simulate
    \/ SettleSign
    \/ Send
    \/ Confirm
    \/ GetExtra
    \/ GetSigners
    \/ Finish

Spec == Init /\ [][Next]_vars

-----------------------------------------------------------------------------
(* Two invocations in flight on one scheme.  An async function runs from one *)
(* await to the next without interruption; at an await the event loop may    *)
(* run the continuation of the other invocation.                             *)

\* the locals of the invocation that is running
RunningFrame ==
    [ pc |-> pc, op |-> op, payload |-> payload,
      requirements |-> requirements, payer |-> payer, invoked |-> invoked,
      verdict |-> verdict, result |-> result, outcome |-> outcome,
      calls |-> calls, expectedDestATA |-> expectedDestATA ]

\* the running invocation awaits, or none has started here: the event loop
\* turns to the other invocation, whose locals are its own
Resume ==
    /\ pc # "done"
    /\ pc # "idle" \/ suspended.pc # "idle"
    /\ suspended' = RunningFrame
    /\ pc' = suspended.pc
    /\ op' = suspended.op
    /\ payload' = suspended.payload
    /\ requirements' = suspended.requirements
    /\ payer' = suspended.payer
    /\ invoked' = suspended.invoked
    /\ verdict' = suspended.verdict
    /\ result' = suspended.result
    /\ outcome' = suspended.outcome
    /\ calls' = suspended.calls
    /\ expectedDestATA' = suspended.expectedDestATA
    /\ UNCHANGED <<signer, verificationConfig>>

\* the strict policy, and policies with custom verifiers
ConcurrentConstructions ==
    { <<<<Fee1, Fee2>>, EmptyObject>> }
    \cup { <<<<Fee1, Fee2>>,
             [ allowAdditionalInstructions |-> TRUE,
               maxInstructionCount |-> MaxIx, customVerifiers |-> rules ]>> :
               rules \in {<<AccepterRule>>, <<PositionRule, ThrowerRule>>} }

\* Scenario A, a transaction with a fourth instruction, one that cannot be
\* decompiled, and requirements whose amount is no number
ConcurrentInputs ==
    { <<PaymentPayload("exact", Network, tx),
        PaymentRequirements("exact", StringValue(Fee1), a)>> :
            tx \in { Encoded(ScenarioA),
                     Encoded(Append(ScenarioA, Instruction(LighthouseProgram, <<>>, <<1>>))),
                     WithLookupTable },
            a \in {Required, NotANumber} }

InitConcurrent ==
    /\ \E made \in ConcurrentConstructions :
          /\ signer = made[1]
          /\ verificationConfig = made[2]
    /\ pc = "idle"
    /\ op = "none"
    /\ payload = Undefined
    /\ requirements = Undefined
    /\ payer = ""
    /\ invoked = {}
    /\ verdict = Undefined
    /\ result = Undefined
    /\ outcome = "pending"
    /\ calls = <<>>
    /\ expectedDestATA = Undefined
    /\ suspended = IdleFrame

VerifyConcurrently ==
    /\ pc = "idle"
    /\ \E input \in ConcurrentInputs : Begin("verify", input[1], input[2])

SettleConcurrently ==
    /\ pc = "idle"
    /\ \E input \in ConcurrentInputs : Begin("settle", input[1], input[2])

NextConcurrent ==
    \/ VerifyConcurrently
    \/ SettleConcurrently
    \/ DeriveDestination
    \/ SignForSimulation
    \/ Simulate
    \/ SettleSign
    \/ Send
    \/ Confirm
    \/ Finish
    \/ Resume

SpecConcurrent == InitConcurrent /\ [][NextConcurrent]_vars

-----------------------------------------------------------------------------
(* What the properties read of a state *)

\* verify or settle is running or has ended
Invoked == pc # "idle" /\ op \in {"verify", "settle"}

\* verify has returned its verdict in the running invocation
VerifyReturned ==
    \/ pc \in {"settleSign", "send", "confirm"}
    \/ pc = "done" /\ outcome = "returned" /\ op \in {"verify", "settle"}

Accepted == VerifyReturned /\ verdict.isValid

Rejected == VerifyReturned /\ ~verdict.isValid

RejectedWith(reason) == Rejected /\ verdict.invalidReason = reason

\* the invocation passed Step 1 and its payload decoded and decompiled
Decoded ==
    /\ Invoked
    /\ payload.accepted.scheme = "exact" /\ requirements.scheme = "exact"
    /\ payload.accepted.network = requirements.network
    /\ requirements.extra.feePayer.type = "string"
    /\ Includes(signer, requirements.extra.feePayer.value)
    /\ payload.payload.transaction.encoding = "base64"
    /\ ~payload.payload.transaction.message.addressTableLookups

Ixs == payload.payload.transaction.message.instructions

FeePayer == requirements.extra.feePayer.value

Policy == MergedConfig(verificationConfig)

HoldsFeePayer(ix) == \E k \in 1..Len(ix.accounts) : ix.accounts[k] = FeePayer

\* the instruction at index 2 is a transfer that meets the requirements
TransferMeetsRequirements ==
    LET ix == At(Ixs, 2)
    IN /\ ix.programAddress \in {TOKEN_PROGRAM_ADDRESS, TOKEN_2022_PROGRAM_ADDRESS}
       /\ Len(ix.accounts) >= 4
       /\ Len(ix.data) >= 3
       /\ \A k \in 1..Len(signer) : signer[k] # ix.accounts[4]
       /\ ix.accounts[2] = requirements.asset
       /\ ix.accounts[3] = AssociatedTokenPda(requirements.asset,
                                              requirements.payTo, ix.programAddress)
       /\ requirements.amount.numeric
       /\ ix.data[2] >= requirements.amount.value

-----------------------------------------------------------------------------
(* C1 *)

\* C1: whenever verify has accepted, and whenever settle has called
\* sendTransaction, the authority of the transfer at index 2 is none of the
\* signer's addresses and, with requireFeePayerNotInInstructions enabled, the
\* required fee payer is in the account list of no instruction at any index.
C1_AcceptedSparesTheFeePayer ==
    (Accepted \/ Called("sendTransaction")) =>
        /\ Decoded
        /\ \A k \in 1..Len(signer) : signer[k] # At(Ixs, 2).accounts[4]
        /\ Policy.requireFeePayerNotInInstructions =>
              \A i \in 1..Len(Ixs) : ~HoldsFeePayer(Ixs[i])

\* settle has submitted a transaction of four instructions under a policy
\* that keeps the fee payer out of the instructions
C1_Witness ==
    /\ Called("sendTransaction")
    /\ Len(Ixs) = 4
    /\ Policy.requireFeePayerNotInInstructions

-----------------------------------------------------------------------------
(* C2 *)

\* C2: in every invocation the signer is called only after the requirement
\* gates, the decode, the instruction policy validation and the transfer
\* validation have passed in that invocation, and its first call is
\* signTransaction: nothing that fails a gate is cosigned, simulated,
\* submitted or confirmed.
C2_SignerOnlyAfterGates ==
    calls # <<>> =>
        /\ Decoded
        /\ payer # ""
        /\ validateInstructions(verificationConfig, Ixs, signer, FeePayer).isValid
        /\ TransferMeetsRequirements
        /\ calls[1].fn = "signTransaction"
        /\ \A k \in 2..Len(calls) : calls[k - 1].ret # Threw

\* settle has gone through sign, simulate, sign, send and confirm
C2_Witness ==
    /\ op = "settle"
    /\ Len(calls) = 5
    /\ calls[5].fn = "confirmTransaction"

-----------------------------------------------------------------------------
(* C3 *)

\* C3: when the verify that settle runs rejects, settle returns
\* success=false with verify's invalidReason as errorReason, verify's payer,
\* the empty transaction, and has called neither sendTransaction nor
\* confirmTransaction.
C3_SettleEchoesRejection ==
    (op = "settle" /\ pc = "done" /\ Rejected) =>
        /\ result.success = FALSE
        /\ result.errorReason = verdict.invalidReason
        /\ result.payer = verdict.payer
        /\ result.transaction = ""
        /\ ~Called("sendTransaction")
        /\ ~Called("confirmTransaction")

\* settle has returned after a rejection that carries a resolved payer
C3_Witness ==
    /\ op = "settle" /\ pc = "done" /\ Rejected
    /\ verdict.payer # ""
    /\ verdict.invalidReason = "invalid_exact_svm_payload_amount_insufficient"

-----------------------------------------------------------------------------
(* C4 *)

\* C4: verify and settle never raise: every invocation ends by returning a
\* verdict or a settlement result.
C4_NeverRaises == pc = "done" => outcome = "returned"

-----------------------------------------------------------------------------
(* C5 *)

\* C5 as claimed: a decoded transaction of fewer than 3 instructions is
\* rejected with the too-few reason whatever the instructions are.
C5_TooFewWhateverTheContent ==
    (Decoded /\ VerifyReturned /\ Len(Ixs) < 3) =>
        RejectedWith("invalid_exact_svm_payload_transaction_instructions_length_too_few")

\* C5 as amended: a decoded transaction of fewer than 3 instructions is
\* rejected with the too-few reason when a payer is resolved from it, and with
\* the no-transfer-instruction reason when none is.
C5_TooFewOncePayerResolved ==
    (Decoded /\ Len(Ixs) < 3) =>
        /\ VerifyReturned
        /\ payer # "" =>
             RejectedWith("invalid_exact_svm_payload_transaction_instructions_length_too_few")
        /\ payer = "" =>
             RejectedWith("invalid_exact_svm_payload_no_transfer_instruction")

\* two instructions, a payer resolved from them, rejected as too few
C5_Witness ==
    /\ Decoded /\ Len(Ixs) = 2 /\ payer # ""
    /\ RejectedWith("invalid_exact_svm_payload_transaction_instructions_length_too_few")

-----------------------------------------------------------------------------
(* C6 *)

ExceedsMaxReason ==
    "invalid_exact_svm_payload_transaction_instructions_length_exceeds_max_"
        \o ToString(Policy.maxInstructionCount)

-----------------------------------------------------------------------------
(* C7 *)

FeePayerHeld ==
    /\ Decoded
    /\ Policy.requireFeePayerNotInInstructions
    /\ \E i \in 1..Len(Ixs) : HoldsFeePayer(Ixs[i])

\* C7 as claimed: with requireFeePayerNotInInstructions enabled, a transaction
\* that holds the required fee payer in an instruction's accounts is rejected
\* with the fee-payer-in-instruction-accounts reason.
C7_FeePayerReasonAlways ==
    (FeePayerHeld /\ VerifyReturned) =>
        RejectedWith("invalid_exact_svm_payload_fee_payer_in_instruction_accounts")

\* C7 as amended: such a transaction is never accepted, and is rejected with
\* the fee-payer-in-instruction-accounts reason, whichever instruction holds
\* the fee payer, when a payer is resolved and the instruction count is at
\* least 3 and at most maxInstructionCount.
C7_FeePayerReasonAfterCount ==
    FeePayerHeld =>
        /\ Rejected
        /\ ( /\ payer # ""
             /\ Len(Ixs) >= 3
             /\ Len(Ixs) <= Policy.maxInstructionCount ) =>
              RejectedWith("invalid_exact_svm_payload_fee_payer_in_instruction_accounts")

\* the fee payer is held by the instruction at index 3 alone
C7_Witness ==
    /\ FeePayerHeld
    /\ Len(Ixs) = 4
    /\ \A i \in 1..3 : ~HoldsFeePayer(Ixs[i])
    /\ RejectedWith("invalid_exact_svm_payload_fee_payer_in_instruction_accounts")

-----------------------------------------------------------------------------
(* C8 *)

OnBlockList(programId) ==
    \E k \in 1..Len(Policy.blockedProgramIds) :
        Policy.blockedProgramIds[k] = programId

\* the validator's loop comes to the additional instruction at index i: a
\* payer is resolved, the count and the fee payer scan pass, additional
\* instructions are allowed, and every instruction before index i passes
ReachesAdditional(i) ==
    /\ payer # ""
    /\ Len(Ixs) <= Policy.maxInstructionCount
    /\ Policy.requireFeePayerNotInInstructions =>
          \A j \in 1..Len(Ixs) : ~HoldsFeePayer(Ixs[j])
    /\ Policy.allowAdditionalInstructions
    /\ validateInstructions(verificationConfig, SubSeq(Ixs, 1, i), signer,
                            FeePayer).isValid

\* C8: a transaction with an instruction at index >= 3 of a blocked program
\* is rejected, also when a custom rule matches the program or the allow-list
\* holds it; when the validator's loop comes to that instruction, the reason
\* is the blocked-program reason of its program and no callback has run for
\* it.
C8_BlockListPrecedence ==
    Decoded =>
        \A i \in 3..(Len(Ixs) - 1) :
            OnBlockList(At(Ixs, i).programAddress) =>
                /\ Rejected
                /\ ReachesAdditional(i) =>
                     /\ RejectedWith("invalid_exact_svm_payload_blocked_program_"
                                        \o At(Ixs, i).programAddress)
                     /\ i \notin invoked

\* a blocked program at index 3 that an accepting custom rule matches and the
\* allow-list holds, rejected as blocked
C8_Witness ==
    /\ Decoded
    /\ Len(Ixs) = 4
    /\ At(Ixs, 3).programAddress = LighthouseProgram
    /\ OnBlockList(LighthouseProgram)
    /\ ReachesAdditional(3)
    /\ Policy.customVerifiers = <<AccepterRule>>
    /\ Policy.allowedProgramIds = <<LighthouseProgram>>
    /\ RejectedWith("invalid_exact_svm_payload_blocked_program_" \o LighthouseProgram)

-----------------------------------------------------------------------------
(* C9 *)

\* C9: a transaction with an instruction of a blocked program, at whatever
\* index, is not accepted.
C9_BlockedAtAnyIndexFails ==
    (Decoded /\ \E i \in 1..Len(Ixs) : OnBlockList(Ixs[i].programAddress)) =>
        ~Accepted

-----------------------------------------------------------------------------
(* C10 *)

\* Scenario B: the default policy, three valid required instructions and one
\* more instruction at index 3
ScenarioB ==
    /\ Decoded
    /\ verificationConfig = EmptyObject
    /\ Len(Ixs) = 4
    /\ validateInstructions(verificationConfig, SubSeq(Ixs, 1, 3), signer,
                            FeePayer).isValid
    /\ TransferMeetsRequirements

\* C10 as claimed: Scenario B is rejected with the
\* additional-instructions-not-allowed reason.
C10_ScenarioBNotAllowed ==
    (ScenarioB /\ VerifyReturned) =>
        RejectedWith("invalid_exact_svm_payload_additional_instructions_not_allowed")

\* C10 as amended: Scenario B is rejected with the exceeds-max reason carrying
\* the default maximum 3.
C10_ScenarioBExceedsMax ==
    ScenarioB =>
        RejectedWith("invalid_exact_svm_payload_transaction_instructions_length_exceeds_max_3")

\* Scenario B with a Lighthouse instruction appended, rejected
C10_Witness ==
    /\ ScenarioB
    /\ At(Ixs, 3).programAddress = LighthouseProgram
    /\ Rejected

-----------------------------------------------------------------------------
(* C11 *)

\* the three required instructions, by what the validator reads of them
RequiredThree ==
    /\ Len(Ixs) >= 3
    /\ At(Ixs, 0).programAddress = COMPUTE_BUDGET_PROGRAM_ADDRESS
    /\ At(Ixs, 0).data[1] = 2
    /\ At(Ixs, 1).programAddress = COMPUTE_BUDGET_PROGRAM_ADDRESS
    /\ At(Ixs, 1).data[1] = 3
    /\ At(Ixs, 2).programAddress \in
          {TOKEN_PROGRAM_ADDRESS, TOKEN_2022_PROGRAM_ADDRESS}

\* C11: a scheme constructed without a verification config accepts only
\* transactions of exactly 3 instructions, a compute-unit-limit at index 0, a
\* compute-unit-price at index 1 and a token transfer at index 2; and whenever
\* allowAdditionalInstructions is false no accepted transaction has more than
\* 3 instructions, whatever maxInstructionCount is.
C11_StrictDefault ==
    Accepted =>
        /\ verificationConfig = EmptyObject => (Len(Ixs) = 3 /\ RequiredThree)
        /\ ~Policy.allowAdditionalInstructions => Len(Ixs) <= 3

\* an acceptance under a policy that raises maxInstructionCount to MaxIx and
\* leaves allowAdditionalInstructions at its default
C11_Witness ==
    /\ Accepted
    /\ ~Policy.allowAdditionalInstructions
    /\ Policy.maxInstructionCount = MaxIx
    /\ Len(Ixs) = 3 /\ RequiredThree

-----------------------------------------------------------------------------
(* C12 *)

\* verify has come to the amount comparison: every gate before it passed, the
\* destination was derived and matched, and the required amount is a number
AmountCompared ==
    /\ Decoded
    /\ payer # ""
    /\ validateInstructions(verificationConfig, Ixs, signer, FeePayer).isValid
    /\ TransferGates(signer, At(Ixs, 2), requirements) = "ok"
    /\ At(Ixs, 2).accounts[3] =
          AssociatedTokenPda(requirements.asset, requirements.payTo,
                             At(Ixs, 2).programAddress)
    /\ requirements.amount.numeric
    /\ pc \notin {"idle", "derive"}
    /\ ~RejectedWith("invalid_exact_svm_payload_recipient_mismatch")

TransferAmount == At(Ixs, 2).data[2]

\* the cosigning and the simulation inside verify both succeeded
SimulationPassed ==
    /\ Len(calls) >= 2
    /\ calls[1].ret # Threw
    /\ calls[2].ret # Threw

\* C12: with every other gate passing, verify rejects with the
\* amount-insufficient reason exactly when the transfer amount is strictly
\* less than the required amount; an amount equal to the requirement and any
\* amount above it are accepted once cosigning and simulation succeed.
C12_AmountThreshold ==
    AmountCompared =>
        /\ TransferAmount < requirements.amount.value =>
              RejectedWith("invalid_exact_svm_payload_amount_insufficient")
        /\ TransferAmount >= requirements.amount.value =>
              /\ ~RejectedWith("invalid_exact_svm_payload_amount_insufficient")
              /\ VerifyReturned => (Accepted <=> SimulationPassed)

\* a transfer of exactly the required amount, accepted
C12_Witness ==
    /\ AmountCompared
    /\ TransferAmount = requirements.amount.value
    /\ Accepted

-----------------------------------------------------------------------------
(* C13 *)

\* the validator has come to the compute-unit-price check: it ran, the count
\* and the fee payer scan passed and the instruction at index 0 is a valid
\* compute-unit-limit
PriceChecked ==
    /\ Decoded
    /\ payer # ""
    /\ Len(Ixs) >= 3
    /\ Len(Ixs) <= Policy.maxInstructionCount
    /\ Policy.requireFeePayerNotInInstructions =>
          \A j \in 1..Len(Ixs) : ~HoldsFeePayer(Ixs[j])
    /\ verifyComputeLimitInstruction(At(Ixs, 0)) = "ok"

\* the instruction at index 1 is a well-formed compute-unit-price instruction
WellFormedPrice ==
    /\ At(Ixs, 1).programAddress = COMPUTE_BUDGET_PROGRAM_ADDRESS
    /\ Len(At(Ixs, 1).data) >= 2
    /\ At(Ixs, 1).data[1] = 3

PriceReason ==
    "invalid_exact_svm_payload_transaction_instructions_compute_price_instruction"

\* C13: once the validator has come to the compute-unit-price check, a
\* well-formed price strictly above the ceiling is rejected with the reason
\* ending in _too_high, a price equal to the ceiling is rejected by neither
\* compute-price reason, and a malformed price instruction is rejected with
\* the reason without the suffix.
C13_PriceCeiling ==
    PriceChecked =>
        /\ ( /\ WellFormedPrice
             /\ At(Ixs, 1).data[2] > MAX_COMPUTE_UNIT_PRICE_MICROLAMPORTS ) =>
              RejectedWith(PriceReason \o "_too_high")
        /\ ( /\ WellFormedPrice
             /\ At(Ixs, 1).data[2] = MAX_COMPUTE_UNIT_PRICE_MICROLAMPORTS ) =>
              /\ ~RejectedWith(PriceReason \o "_too_high")
              /\ ~RejectedWith(PriceReason)
        /\ ~WellFormedPrice => RejectedWith(PriceReason)

-----------------------------------------------------------------------------
(* C14 *)

\* the program addresses, instruction counts and indices the parameterised
\* reasons are instantiated with
ProgramIds ==
    { COMPUTE_BUDGET_PROGRAM_ADDRESS, TOKEN_PROGRAM_ADDRESS,
      TOKEN_2022_PROGRAM_ADDRESS, LighthouseProgram, MemoProgram }

ClosedVocabulary ==
    { "unsupported_scheme",
      "network_mismatch",
      "invalid_exact_svm_payload_missing_fee_payer",
      "fee_payer_not_managed_by_facilitator",
      "invalid_exact_svm_payload_transaction_could_not_be_decoded",
      "invalid_exact_svm_payload_no_transfer_instruction",
      "invalid_exact_svm_payload_transaction_instructions_length_too_few",
      "invalid_exact_svm_payload_fee_payer_in_instruction_accounts",
      "invalid_exact_svm_payload_transaction_instructions_compute_limit_instruction",
      "invalid_exact_svm_payload_transaction_instructions_compute_price_instruction",
      "invalid_exact_svm_payload_transaction_instructions_compute_price_instruction_too_high",
      "invalid_exact_svm_payload_no_transfer_instruction_at_index_2",
      "invalid_exact_svm_payload_additional_instructions_not_allowed",
      "invalid_exact_svm_payload_transaction_fee_payer_transferring_funds",
      "invalid_exact_svm_payload_mint_mismatch",
      "invalid_exact_svm_payload_recipient_mismatch",
      "invalid_exact_svm_payload_amount_insufficient",
      "verification_failed",
      "transaction_failed" }
    \cup { "invalid_exact_svm_payload_transaction_instructions_length_exceeds_max_"
              \o ToString(n) : n \in 0..(MaxIx + 1) }
    \cup { "invalid_exact_svm_payload_blocked_program_" \o id : id \in ProgramIds }
    \cup { "invalid_exact_svm_payload_instruction_position_" \o id \o "_at_"
              \o ToString(i) : id \in ProgramIds, i \in 0..MaxIx }
    \cup { "invalid_exact_svm_payload_program_not_allowed_" \o id : id \in ProgramIds }
    \cup { "transaction_simulation_failed: " \o SignerErrorMessage }

\* what a failing custom-verifier callback makes the reason: the message of
\* the Error it threw, or custom_verifier_failed_<id> when it threw a value
\* that is no Error
CallbackReasons ==
    { RunVerifier("throwsError", Undefined, Undefined).message }
    \cup { "custom_verifier_failed_" \o id : id \in ProgramIds }

\* the failure reason the running invocation has reported, if any
Reported ==
    IF Rejected THEN {verdict.invalidReason}
    ELSE IF op = "settle" /\ pc = "done" /\ outcome = "returned" /\ ~result.success
    THEN {result.errorReason}
    ELSE {}

\* C14 as claimed: every invalidReason verify returns and every errorReason
\* settle returns is in the closed vocabulary, for every policy.
C14_ReasonsInVocabulary ==
    \A reason \in Reported : reason \in ClosedVocabulary

\* C14 as amended: every reason is in the closed vocabulary, or a
\* custom-verifier callback has run and failed and the reason is the message
\* of the Error it threw, or custom_verifier_failed_<id> when what it threw is
\* no Error.
C14_ReasonsInVocabularyOrFromCallback ==
    \A reason \in Reported :
        \/ reason \in ClosedVocabulary
        \/ invoked # {} /\ reason \in CallbackReasons

\* settle reports the message a callback threw at index 3
C14_Witness ==
    /\ op = "settle" /\ pc = "done" /\ outcome = "returned"
    /\ invoked = {3}
    /\ result.errorReason \notin ClosedVocabulary
    /\ result.errorReason \in CallbackReasons

-----------------------------------------------------------------------------
(* C15 *)

\* the payer verify resolves from the decoded transaction
ResolvedPayer ==
    getTokenPayerFromTransaction(
        decodeTransactionFromPayload(payload.payload).transaction)

\* C15: a verdict of a gate before payer resolution (scheme, network, fee
\* payer missing or not managed, decode failure, payer unresolvable) has the
\* empty payer; every later verdict, accepting or rejecting, carries the
\* resolved payer, which is not empty; and what settle returns carries the
\* payer of verify's verdict, on its failure paths and on its success path.
C15_PayerReporting ==
    VerifyReturned =>
        /\ (~Decoded \/ ResolvedPayer = "") => verdict.payer = ""
        /\ (Decoded /\ ResolvedPayer # "") =>
              /\ verdict.payer = ResolvedPayer
              /\ verdict.payer # ""
        /\ (op = "settle" /\ pc = "done") => result.payer = verdict.payer

\* settle has failed after verify resolved the payer and rejected
C15_Witness ==
    /\ op = "settle" /\ pc = "done" /\ Rejected
    /\ Decoded
    /\ ResolvedPayer = Client
    /\ verdict.invalidReason = "invalid_exact_svm_payload_mint_mismatch"
    /\ result.payer = Client

-----------------------------------------------------------------------------
(* C16 *)

\* the first custom-verifier rule matching the program at index i lets the
\* instruction through: its position constraint allows i and its callback,
\* if it has one, does not throw
RulePasses(i) ==
    LET found == FindVerifier(Policy.customVerifiers, At(Ixs, i).programAddress)
        rule == Policy.customVerifiers[found]
    IN /\ found # 0
       /\ "allowedPositions" \in DOMAIN rule =>
             \E k \in 1..Len(rule.allowedPositions) : rule.allowedPositions[k] = i
       /\ "verify" \in DOMAIN rule => rule.verify = "accepts"

\* the allow-list is not empty and does not hold the program
OffAllowList(programId) ==
    /\ Len(Policy.allowedProgramIds) > 0
    /\ \A k \in 1..Len(Policy.allowedProgramIds) :
          Policy.allowedProgramIds[k] # programId

\* the validator's loop goes past the instruction at index i
PassesThrough(i) ==
    validateInstructions(verificationConfig, SubSeq(Ixs, 1, i + 1), signer,
                         FeePayer).isValid

\* C16: when the validator's loop comes to an unblocked instruction at index
\* i >= 3: if a custom-verifier rule matches its program, the allow-list is
\* not consulted (no program-not-allowed rejection for it, and the
\* instruction passes when the rule's position constraint and callback pass,
\* whatever the allow-list holds); if no rule matches, it is rejected with
\* the program-not-allowed reason of its program exactly when the allow-list
\* is non-empty and does not hold the program, and passes otherwise.
C16_VerifierBeforeAllowList ==
    Decoded =>
        \A i \in 3..(Len(Ixs) - 1) :
            LET programId == At(Ixs, i).programAddress
                notAllowed == "invalid_exact_svm_payload_program_not_allowed_"
                                 \o programId
            IN (ReachesAdditional(i) /\ ~OnBlockList(programId)) =>
                 IF FindVerifier(Policy.customVerifiers, programId) # 0
                 THEN /\ ~RejectedWith(notAllowed)
                      /\ RulePasses(i) => PassesThrough(i)
                 ELSE /\ OffAllowList(programId) => RejectedWith(notAllowed)
                      /\ ~OffAllowList(programId) =>
                            /\ ~RejectedWith(notAllowed)
                            /\ PassesThrough(i)

\* a Memo instruction at index 3 that a rule matches and lets through while
\* the allow-list holds the Lighthouse program alone: verify accepted
C16_Witness ==
    /\ Decoded
    /\ Len(Ixs) = 4
    /\ At(Ixs, 3).programAddress = MemoProgram
    /\ ReachesAdditional(3)
    /\ RulePasses(3)
    /\ OffAllowList(MemoProgram)
    /\ 3 \in invoked
    /\ Accepted

-----------------------------------------------------------------------------
(* C17 *)

\* C17: for every list of addresses the signer controls, the empty list
\* included, the feePayer getExtra returns is an address that getSigners
\* lists.
C17_ExtraFeePayerIsASigner ==
    (op = "getExtra" /\ pc = "done") =>
        /\ result.feePayer.type = "string"
        /\ \E k \in 1..Len(getSigners(signer)) :
              getSigners(signer)[k] = result.feePayer.value

-----------------------------------------------------------------------------
(* C18 *)

\* settle has returned success
Settled ==
    /\ op = "settle" /\ pc = "done" /\ outcome = "returned"
    /\ result.success

\* C18: once the verify inside settle has passed (its cosigning and its
\* simulation are calls 1 and 2), settle calls signTransaction for the
\* required fee payer, then sendTransaction on what that second sign returned,
\* then confirmTransaction on the signature send returned, each at most once
\* and in this order, none after a failed one; settle returns success only
\* after confirmTransaction has returned without error, and its transaction
\* is then the signature send returned.
C18_SettlementOrder ==
    (op = "settle" /\ Accepted) =>
        /\ Len(calls) \in 2..5
        /\ pc = "settleSign" <=> Len(calls) = 2
        /\ pc = "send" <=> (Len(calls) = 3 /\ calls[3].ret # Threw)
        /\ pc = "confirm" <=> (Len(calls) = 4 /\ calls[4].ret # Threw)
        /\ Len(calls) >= 3 =>
              /\ calls[3].fn = "signTransaction"
              /\ calls[3].arg = FeePayer
        /\ Len(calls) >= 4 =>
              /\ calls[4].fn = "sendTransaction"
              /\ calls[4].arg = calls[3].ret
        /\ Len(calls) >= 5 =>
              /\ calls[5].fn = "confirmTransaction"
              /\ calls[5].arg = calls[4].ret
        /\ pc = "done" =>
              ( result.success <=> (Len(calls) = 5 /\ calls[5].ret # Threw) )
        /\ (pc = "done" /\ result.success) =>
              result.transaction = calls[4].ret

\* settle has returned success with the signature of its submission
C18_Witness ==
    /\ Settled
    /\ calls[3].fn = "signTransaction"
    /\ calls[4].fn = "sendTransaction"
    /\ calls[5].fn = "confirmTransaction"
    /\ result.transaction = calls[4].ret
    /\ result.transaction # ""

-----------------------------------------------------------------------------
(* C19 *)

\* the verify inside settle passed (its cosigning and simulation succeeded)
\* and a later call of the signer failed
SettlementStepFailed ==
    /\ op = "settle" /\ SimulationPassed
    /\ Len(calls) >= 3
    /\ calls[Len(calls)].ret = Threw

\* C19: after a successful verification, a failure of the second sign, of the
\* submission or of the confirmation makes settle return success=false with
\* errorReason transaction_failed; the failing call is the last one made (a
\* failed sign is followed by no send, a failed send by no confirm).
C19_FailureCollapses ==
    /\ SettlementStepFailed =>
          /\ pc = "done"
          /\ outcome = "returned"
          /\ result.success = FALSE
          /\ result.errorReason = "transaction_failed"
    /\ (op = "settle" /\ SimulationPassed) =>
          \A k \in 3..Len(calls) :
              calls[k].ret = Threw =>
                  /\ k = Len(calls)
                  /\ k = 3 => ~Called("sendTransaction")
                  /\ k <= 4 => ~Called("confirmTransaction")

\* the submission failed: settle returned transaction_failed without
\* confirming
C19_Witness ==
    /\ SettlementStepFailed
    /\ calls[Len(calls)].fn = "sendTransaction"
    /\ result.errorReason = "transaction_failed"
    /\ ~Called("confirmTransaction")

-----------------------------------------------------------------------------
(* C20 *)

SimulationFailedReason == "transaction_simulation_failed: " \o SignerErrorMessage

\* the gates of verify that read the state of the invocation alone, in the
\* order claimed: the reason of the first one that fails, "ok" when none does.
\* A failing decompile and a required amount that is no number have no reason
\* of their own and are named in angle brackets.
FirstFailingGate ==
    IF payload.accepted.scheme # "exact" \/ requirements.scheme # "exact"
    THEN "unsupported_scheme"
    ELSE IF payload.accepted.network # requirements.network
    THEN "network_mismatch"
    ELSE IF \/ requirements.extra.feePayer.type # "string"
            \/ requirements.extra.feePayer.value = ""
    THEN "invalid_exact_svm_payload_missing_fee_payer"
    ELSE IF \A k \in 1..Len(signer) : signer[k] # FeePayer
    THEN "fee_payer_not_managed_by_facilitator"
    ELSE IF payload.payload.transaction.encoding # "base64"
    THEN "invalid_exact_svm_payload_transaction_could_not_be_decoded"
    ELSE IF payload.payload.transaction.message.addressTableLookups
    THEN "<decompile>"
    ELSE IF ResolvedPayer = ""
    THEN "invalid_exact_svm_payload_no_transfer_instruction"
    ELSE IF ~validateInstructions(verificationConfig, Ixs, signer, FeePayer).isValid
    THEN validateInstructions(verificationConfig, Ixs, signer, FeePayer).reason
    ELSE IF TransferGates(signer, At(Ixs, 2), requirements) # "ok"
    THEN TransferGates(signer, At(Ixs, 2), requirements)
    ELSE IF At(Ixs, 2).accounts[3] #
              AssociatedTokenPda(requirements.asset, requirements.payTo,
                                 At(Ixs, 2).programAddress)
    THEN "invalid_exact_svm_payload_recipient_mismatch"
    ELSE IF ~requirements.amount.numeric
    THEN "<amount>"
    ELSE IF TransferAmount < requirements.amount.value
    THEN "invalid_exact_svm_payload_amount_insufficient"
    ELSE "ok"

\* the verdict is the one of the first gate that failed, and nothing ran
\* after it; a derivation of the destination that fails is a recipient
\* mismatch, decided before the amount is read
GateSequenceDecides ==
    LET first == FirstFailingGate
        amountGate == {"<amount>", "invalid_exact_svm_payload_amount_insufficient"}
    IN
    /\ first \notin (amountGate \cup {"ok"}) =>
          /\ RejectedWith(first)
          /\ calls = <<>>
    /\ first \in amountGate =>
          /\ \/ RejectedWith(first)
             \/ RejectedWith("invalid_exact_svm_payload_recipient_mismatch")
          /\ calls = <<>>
    /\ first = "ok" =>
          \/ /\ RejectedWith("invalid_exact_svm_payload_recipient_mismatch")
             /\ calls = <<>>
          \/ /\ RejectedWith(SimulationFailedReason)
             /\ Len(calls) \in 1..2
             /\ calls[Len(calls)].ret = Threw
          \/ /\ Accepted
             /\ SimulationPassed
    /\ Accepted => first = "ok"
    /\ Len(calls) >= 1 => calls[1].fn = "signTransaction"
    /\ Len(calls) >= 2 =>
          /\ calls[1].ret # Threw
          /\ calls[2].fn = "simulateTransaction"
    /\ op = "verify" => Len(calls) <= 2
    /\ \A k \in 3..Len(calls) : calls[k].fn # "simulateTransaction"

\* C20: verify is one pass over the gates scheme, network, fee payer present,
\* fee payer managed, decode, decompile, payer resolvable, instruction policy,
\* transfer validation, cosign, simulate: every invocation ends with a
\* verdict, the verdict's reason is that of the first gate that fails in this
\* order, nothing is evaluated after it, cosign and simulate are each called
\* at most once, the verdict is valid exactly when every gate passes, and a
\* failure of cosign or simulate gives a reason beginning
\* transaction_simulation_failed: .
C20_FirstFailingGateDecides ==
    (Invoked /\ (pc = "done" \/ VerifyReturned)) =>
        /\ outcome = "returned" \/ pc # "done"
        /\ GateSequenceDecides

-----------------------------------------------------------------------------
(* C21 *)

\* what the validator's loop makes of the instruction at index i >= 3 taken
\* alone: the reason it is rejected with, "ok" when it passes
AdditionalReason(i) ==
    LET programId == At(Ixs, i).programAddress
        found == FindVerifier(Policy.customVerifiers, programId)
        rule == Policy.customVerifiers[found]
    IN
    IF OnBlockList(programId)
    THEN "invalid_exact_svm_payload_blocked_program_" \o programId
    ELSE IF found # 0
    THEN IF /\ "allowedPositions" \in DOMAIN rule
            /\ \A k \in 1..Len(rule.allowedPositions) : rule.allowedPositions[k] # i
         THEN "invalid_exact_svm_payload_instruction_position_" \o programId
                 \o "_at_" \o ToString(i)
         ELSE IF "verify" \in DOMAIN rule /\ rule.verify = "throwsError"
         THEN RunVerifier("throwsError", Undefined, Undefined).message
         ELSE IF "verify" \in DOMAIN rule /\ rule.verify = "throwsValue"
         THEN "custom_verifier_failed_" \o programId
         ELSE "ok"
    ELSE IF OffAllowList(programId)
    THEN "invalid_exact_svm_payload_program_not_allowed_" \o programId
    ELSE "ok"

\* the reason of the earliest violated step in the order claimed, "ok" when
\* no step is violated; withCeiling: whether a price above the ceiling
\* violates the step of instruction 1
EarliestViolatedStep(withCeiling) ==
    LET failing == { i \in 3..(Len(Ixs) - 1) : AdditionalReason(i) # "ok" }
    IN
    IF Len(Ixs) < 3
    THEN "invalid_exact_svm_payload_transaction_instructions_length_too_few"
    ELSE IF Len(Ixs) > Policy.maxInstructionCount
    THEN ExceedsMaxReason
    ELSE IF /\ Policy.requireFeePayerNotInInstructions
            /\ \E j \in 1..Len(Ixs) : HoldsFeePayer(Ixs[j])
    THEN "invalid_exact_svm_payload_fee_payer_in_instruction_accounts"
    ELSE IF \/ At(Ixs, 0).programAddress # COMPUTE_BUDGET_PROGRAM_ADDRESS
            \/ Len(At(Ixs, 0).data) < 2
            \/ At(Ixs, 0).data[1] # 2
    THEN "invalid_exact_svm_payload_transaction_instructions_compute_limit_instruction"
    ELSE IF ~WellFormedPrice
    THEN PriceReason
    ELSE IF /\ withCeiling
            /\ At(Ixs, 1).data[2] > MAX_COMPUTE_UNIT_PRICE_MICROLAMPORTS
    THEN PriceReason \o "_too_high"
    ELSE IF At(Ixs, 2).programAddress \notin
              {TOKEN_PROGRAM_ADDRESS, TOKEN_2022_PROGRAM_ADDRESS}
    THEN "invalid_exact_svm_payload_no_transfer_instruction_at_index_2"
    ELSE IF Len(Ixs) > 3 /\ ~Policy.allowAdditionalInstructions
    THEN "invalid_exact_svm_payload_additional_instructions_not_allowed"
    ELSE IF failing # {}
    THEN AdditionalReason(CHOOSE i \in failing : \A j \in failing : i <= j)
    ELSE "ok"

\* the validator's result is that of the earliest violated step, and the
\* transfer instruction index it reports is 2
EarliestStepDecides(withCeiling) ==
    (Decoded /\ payer # "") =>
        LET validationResult ==
                validateInstructions(verificationConfig, Ixs, signer, FeePayer)
            earliest == EarliestViolatedStep(withCeiling)
        IN /\ validationResult.transferInstructionIndex = 2
           /\ earliest = "ok" => validationResult.isValid
           /\ earliest # "ok" =>
                 /\ ~validationResult.isValid
                 /\ validationResult.reason = earliest
                 /\ RejectedWith(earliest)

\* C21: the validator short-circuits in the order count < 3, count > maximum,
\* fee payer in an account list (when enabled), instruction 0 no valid
\* compute-unit-limit, instruction 1 no valid compute-unit-price or its price
\* above the ceiling, instruction 2 no supported token program, then the
\* additional instructions in increasing index order: the reason returned is
\* that of the earliest violated step, and the transfer instruction index
\* reported is 2 on success and on failure.
C21_EarliestStepDecides == EarliestStepDecides(TRUE)

-----------------------------------------------------------------------------
(* C22 *)

\* verify has come to the transfer validation: every gate before it passed;
\* the required amount is a number
TransferValidated ==
    /\ Decoded
    /\ payer # ""
    /\ validateInstructions(verificationConfig, Ixs, signer, FeePayer).isValid
    /\ requirements.amount.numeric

\* the address the destination is compared with
RequiredDestination ==
    AssociatedTokenPda(requirements.asset, requirements.payTo,
                       At(Ixs, 2).programAddress)

\* the first failing check of the transfer at index 2 in the order claimed,
\* "ok" when none fails, the derivation of the destination succeeding
FirstFailingTransferCheck ==
    LET ix == At(Ixs, 2)
    IN IF Len(ix.accounts) < 4 \/ Len(ix.data) < 3
       THEN "invalid_exact_svm_payload_no_transfer_instruction"
       ELSE IF \E k \in 1..Len(signer) : signer[k] = ix.accounts[4]
       THEN "invalid_exact_svm_payload_transaction_fee_payer_transferring_funds"
       ELSE IF ix.accounts[2] # requirements.asset
       THEN "invalid_exact_svm_payload_mint_mismatch"
       ELSE IF ix.accounts[3] # RequiredDestination
       THEN "invalid_exact_svm_payload_recipient_mismatch"
       ELSE IF ix.data[2] < requirements.amount.value
       THEN "invalid_exact_svm_payload_amount_insufficient"
       ELSE "ok"

TransferReasons ==
    { "invalid_exact_svm_payload_no_transfer_instruction",
      "invalid_exact_svm_payload_transaction_fee_payer_transferring_funds",
      "invalid_exact_svm_payload_mint_mismatch",
      "invalid_exact_svm_payload_recipient_mismatch",
      "invalid_exact_svm_payload_amount_insufficient" }

\* C22: the transfer validation checks the instruction at index 2 in the
\* order parse, authority no signer address, mint the required asset,
\* destination the token account derived from (asset, payTo, the token program
\* of the instruction), amount at least the required amount, and returns the
\* reason of the first failing check; a derivation that fails is a recipient
\* mismatch, and nothing is derived after an earlier check failed.
C22_TransferCheckOrder ==
    TransferValidated =>
        LET first == FirstFailingTransferCheck
            beforeDerivation ==
                { "invalid_exact_svm_payload_no_transfer_instruction",
                  "invalid_exact_svm_payload_transaction_fee_payer_transferring_funds",
                  "invalid_exact_svm_payload_mint_mismatch" }
        IN
        /\ first \in beforeDerivation =>
              /\ RejectedWith(first)
              /\ expectedDestATA = Undefined
        /\ first \notin beforeDerivation =>
              \/ pc = "derive" /\ expectedDestATA = Undefined
              \/ /\ expectedDestATA = Threw
                 /\ RejectedWith("invalid_exact_svm_payload_recipient_mismatch")
              \/ /\ expectedDestATA = RequiredDestination
                 /\ first # "ok" => RejectedWith(first)
                 /\ first = "ok" =>
                       ~(Rejected /\ verdict.invalidReason \in TransferReasons)

\* Scenario D: the destination is the token account of another owner; the
\* derivation succeeded and verify rejected with recipient mismatch
C22_Witness ==
    /\ TransferValidated
    /\ At(Ixs, 2).accounts[3] =
          AssociatedTokenPda(Usdc, Client, TOKEN_PROGRAM_ADDRESS)
    /\ expectedDestATA = RequiredDestination
    /\ RejectedWith("invalid_exact_svm_payload_recipient_mismatch")

-----------------------------------------------------------------------------
(* C23 *)

\* the rules of the policy that match the program, by their place in the
\* declared order
MatchingRules(programId) ==
    { k \in 1..Len(Policy.customVerifiers) :
        \E n \in 1..Len(Policy.customVerifiers[k].programIds) :
            Policy.customVerifiers[k].programIds[n] = programId }

\* the rule's allowedPositions, if it has any, hold the index
PositionAllowed(rule, i) ==
    "allowedPositions" \in DOMAIN rule =>
        \E n \in 1..Len(rule.allowedPositions) : rule.allowedPositions[n] = i

\* C23: when the validator's loop comes to an unblocked instruction at index
\* i >= 3 that some custom-verifier rule matches, the first matching rule in
\* declared order alone is applied: if its allowedPositions do not hold i the
\* instruction is rejected with the instruction-position reason of its
\* program and index and no callback runs for it, whatever a later rule for
\* the program allows; a rule without allowedPositions rejects no position; a
\* rule without a callback lets the instruction through, and a rule with one
\* runs it and it decides.
C23_FirstMatchingRuleApplies ==
    Decoded =>
        \A i \in 3..(Len(Ixs) - 1) :
            LET programId == At(Ixs, i).programAddress
                matching == MatchingRules(programId)
                rule == Policy.customVerifiers[
                            CHOOSE k \in matching : \A j \in matching : k <= j]
                position == "invalid_exact_svm_payload_instruction_position_"
                               \o programId \o "_at_" \o ToString(i)
            IN ( /\ ReachesAdditional(i)
                 /\ ~OnBlockList(programId)
                 /\ matching # {} ) =>
                 /\ ~PositionAllowed(rule, i) =>
                       /\ RejectedWith(position)
                       /\ i \notin invoked
                 /\ "allowedPositions" \notin DOMAIN rule =>
                       ~RejectedWith(position)
                 /\ (PositionAllowed(rule, i) /\ "verify" \notin DOMAIN rule) =>
                       /\ PassesThrough(i)
                       /\ i \notin invoked
                 /\ (PositionAllowed(rule, i) /\ "verify" \in DOMAIN rule) =>
                       /\ i \in invoked
                       /\ PassesThrough(i) <=> rule.verify = "accepts"

\* a Lighthouse instruction at index 3 under a first rule that allows
\* position 4 alone and a second rule for the program that allows 3:
\* rejected for its position, no callback run
C23_Witness ==
    /\ Decoded
    /\ Len(Ixs) = 4
    /\ At(Ixs, 3).programAddress = LighthouseProgram
    /\ ReachesAdditional(3)
    /\ Policy.customVerifiers = <<PositionRule, ThrowerRule>>
    /\ PositionAllowed(ThrowerRule, 3)
    /\ invoked = {}
    /\ RejectedWith("invalid_exact_svm_payload_instruction_position_"
                       \o LighthouseProgram \o "_at_3")

-----------------------------------------------------------------------------
(* C24: concurrent invocations share nothing they write *)

\* what findAssociatedTokenPda and the signer answered an invocation, in the
\* order it asked
Responses(derivation, log) ==
    [derivation |-> derivation, signer |-> [k \in 1..Len(log) |-> log[k].ret]]

Outcome(how, value) == [outcome |-> how, result |-> value]

\* verify(p, req) run from entry to exit with nothing else in flight, on the
\* scheme as it is, answered by `responses`
VerifyAlone(p, req, responses) ==
    LET ran == VerifyToDerive(verificationConfig, signer, p, req)
        transferIx == TransferInstruction(p)
        derived == IF responses.derivation = Threw THEN Undefined
                   ELSE responses.derivation
        checked == DestinationAndAmount(derived, transferIx, req)
        failed == VerifyResponse(FALSE,
                      "transaction_simulation_failed: " \o SignerErrorMessage,
                      ran.payer)
    IN
    IF ran.kind = "return" THEN Outcome("returned", ran.verdict)
    ELSE IF ran.kind = "throw" THEN Outcome("threw", Undefined)
    ELSE IF checked.threw THEN Outcome("threw", Undefined)
    ELSE IF checked.reason # "ok"
    THEN Outcome("returned", VerifyResponse(FALSE, checked.reason, ran.payer))
    ELSE IF responses.signer[1] = Threw THEN Outcome("returned", failed)
    ELSE IF responses.signer[2] = Threw THEN Outcome("returned", failed)
    ELSE Outcome("returned", VerifyResponse(TRUE, Undefined, ran.payer))

\* settle(p, req) run alone in the same way
SettleAlone(p, req, responses) ==
    LET valid == VerifyAlone(p, req, responses)
    IN
    IF valid.outcome = "threw" THEN valid
    ELSE IF ~valid.result.isValid
    THEN Outcome("returned", SettleVerificationFailed(valid.result, p))
    ELSE IF \E k \in 3..5 : responses.signer[k] = Threw
    THEN Outcome("returned", SettleTransactionFailed(valid.result, p))
    ELSE Outcome("returned",
                 SettleSucceeded(valid.result, p, responses.signer[4]))

RunAlone(o, p, req, responses) ==
    IF o = "verify" THEN VerifyAlone(p, req, responses)
    ELSE SettleAlone(p, req, responses)

\* the invocation that is running has ended as it would have alone
EndedAsAlone ==
    (pc = "done" /\ op \in {"verify", "settle"})
    => Outcome(outcome, result)
         = RunAlone(op, payload, requirements,
                    Responses(expectedDestATA, calls))

\* no step of an invocation writes a field of the scheme
SchemeNotWritten ==
    /\ signer' = signer
    /\ verificationConfig' = verificationConfig

\* C24: in every interleaving of the steps of two invocations of verify and
\* settle on one scheme, no step writes the policy configuration or the
\* signer the scheme holds, and an invocation ends with the result it has
\* when run alone on the same inputs with the same answers of
\* findAssociatedTokenPda and the signer
C24_InvocationsIndependent ==
    [][SchemeNotWritten]_vars /\ []EndedAsAlone

\* an invocation of settle has returned its success while another
\* invocation, started with other inputs, is suspended between two calls of
\* the signer
C24_Witness ==
    /\ pc = "done"
    /\ op = "settle"
    /\ outcome = "returned"
    /\ result.success
    /\ suspended.pc \in {"simulate", "send", "confirm"}
    /\ suspended.payload # payload
    /\ verificationConfig # EmptyObject

-----------------------------------------------------------------------------
(* C25: the settlement result and the submission signature *)

\* the calls of sendTransaction that returned a signature
Submissions ==
    { k \in 1..Len(calls) :
        calls[k].fn = "sendTransaction" /\ calls[k].ret # Threw }

\* C25: a result settle returns carries the signature sendTransaction
\* returned in that invocation, also when confirmTransaction failed after
\* it, and its transaction is "" only when no submission returned one
C25_ResultCarriesSignature ==
    (pc = "done" /\ op = "settle" /\ outcome = "returned")
    => /\ \A k \in Submissions : result.transaction = calls[k].ret
       /\ result.transaction = "" => Submissions = {}

====
